---- MODULE Spec2Model ----
(***************************************************************************)
(* Model of services/rest.js of flickr-sdk: the API-key plugin, the extras *)
(* normalizer (processExtras), the request factory (createClient), the     *)
(* Flickr constructor and the namespace operations installed on            *)
(* Flickr.prototype.                                                       *)
(*                                                                         *)
(* JavaScript values are records [t |-> tag, v |-> list of strings]; a     *)
(* string is a sequence of tokens, the comma being the token ",".          *)
(***************************************************************************)
EXTENDS Integers, Sequences, FiniteSets, TLC

VARIABLES heap, proto, instances, last

vars == <<heap, proto, instances, last>>

(***************************************************************************)
(* Bounds                                                                  *)
(***************************************************************************)
\* longest extras string (in tokens) given to the normalizer
MaxExtrasLen == 4
\* longest extras array / largest extras Set given to the normalizer
MaxExtrasItems == 3
\* number of clients constructed
MaxClients == 2

(***************************************************************************)
(* Strings and JavaScript values                                           *)
(***************************************************************************)
Comma == ","

ExtrasAlphabet == {"a", "b", Comma}

RECURSIVE StringsUpTo(_)
StringsUpTo(n) ==
    IF n = 0 THEN {<<>>}
    ELSE LET shorter == StringsUpTo(n - 1)
         IN  shorter \cup {Append(s, c) : s \in shorter, c \in ExtrasAlphabet}

RECURSIVE ListsUpTo(_, _)
ListsUpTo(S, n) ==
    IF n = 0 THEN {<<>>}
    ELSE LET shorter == ListsUpTo(S, n - 1)
         IN  shorter \cup {Append(l, e) : l \in shorter, e \in S}

Range(s) == {s[i] : i \in 1..Len(s)}

NoDuplicates(s) == \A i, j \in 1..Len(s) : s[i] = s[j] => i = j

\* typeof x === 'string': v holds the one string
Str(s) == [t |-> "string", v |-> <<s>>]
\* Array.isArray(x): v holds the elements, all strings
Arr(l) == [t |-> "array", v |-> l]
\* x instanceof Set: v holds the members in insertion order
SetOf(l) == [t |-> "set", v |-> l]
Num(n) == [t |-> "number", v |-> <<<<n>>>>]
Bool(b) == [t |-> "boolean", v |-> <<<<b>>>>]
Null == [t |-> "null", v |-> <<>>]
Undefined == [t |-> "undefined", v |-> <<>>]
Obj == [t |-> "object", v |-> <<>>]

\* JavaScript truthiness, as used by `if (x)` and `x || y`
Truthy(x) ==
    CASE x.t = "string" -> x.v[1] # <<>>
      [] x.t = "number" -> x.v[1] # <<"0">>
      [] x.t = "boolean" -> x.v[1] = <<"true">>
      [] x.t \in {"null", "undefined"} -> FALSE
      [] OTHER -> TRUE

\* String.prototype.split(','): the pieces between commas, empty pieces kept
RECURSIVE SplitFrom(_, _, _)
SplitFrom(s, i, cur) ==
    IF i > Len(s) THEN <<cur>>
    ELSE IF s[i] = Comma THEN <<cur>> \o SplitFrom(s, i + 1, <<>>)
    ELSE SplitFrom(s, i + 1, Append(cur, s[i]))

Split(s) == SplitFrom(s, 1, <<>>)

\* Array.prototype.join(',')
RECURSIVE Join(_)
Join(l) ==
    IF l = <<>> THEN <<>>
    ELSE IF Len(l) = 1 THEN l[1]
    ELSE l[1] \o <<Comma>> \o Join(Tail(l))

\* new Set(array): members in order of first insertion
RECURSIVE NewSet(_, _)
NewSet(l, acc) ==
    IF l = <<>> THEN acc
    ELSE NewSet(Tail(l), IF Head(l) \in Range(acc) THEN acc ELSE Append(acc, Head(l)))

(***************************************************************************)
(* Errors and results                                                      *)
(***************************************************************************)
Error(message, argument) == [message |-> message, argument |-> argument]

NoError == Error("", "")

InvalidTypeExtras == Error("Invalid type for argument", "extras")

MissingRequired(p) == Error("Missing required argument", p)

Returned(x) == [ok |-> TRUE, val |-> x, err |-> NoError]

Thrown(e) == [ok |-> FALSE, val |-> Undefined, err |-> e]

\* the outcome of a call together with its argument as the call leaves it
Leaving(r, x) == [ok |-> r.ok, val |-> r.val, err |-> r.err, arg |-> x]

(***************************************************************************)
(* processExtras                                                           *)
(***************************************************************************)
\* processExtras with the type test reduced to typeof extras === 'object'
processExtrasObjectsOnly(extras) ==
    IF extras.t \in {"object", "null"}
    THEN Leaving(Thrown(InvalidTypeExtras), extras)
    ELSE IF ~(extras.t \in {"string", "array", "set"})
    THEN Leaving(Returned(Undefined), extras)
    ELSE LET e1 == IF extras.t = "string" THEN Arr(Split(extras.v[1])) ELSE extras
             e2 == IF e1.t = "array" THEN SetOf(NewSet(e1.v, <<>>)) ELSE e1
         IN  Leaving(Returned(Str(Join(e2.v))), extras)

\* processExtras dropping the empty segments of a string after the split
processExtrasSkippingEmpty(extras) ==
    IF extras.t \notin {"string", "array", "set"}
    THEN Leaving(Thrown(InvalidTypeExtras), extras)
    ELSE LET e1 == IF extras.t = "string"
                   THEN Arr(SelectSeq(Split(extras.v[1]), LAMBDA f : f # <<>>))
                   ELSE extras
             e2 == IF e1.t = "array" THEN SetOf(NewSet(e1.v, <<>>)) ELSE e1
         IN  Leaving(Returned(Str(Join(e2.v))), extras)

\* processExtras keeping the last occurrence of a repeated element instead of
\* the first
processExtrasLastOccurrence(extras) ==
    IF extras.t \notin {"string", "array", "set"}
    THEN Leaving(Thrown(InvalidTypeExtras), extras)
    ELSE LET rev(l) == [i \in 1..Len(l) |-> l[Len(l) + 1 - i]]
             e1 == IF extras.t = "string" THEN Arr(Split(extras.v[1])) ELSE extras
             e2 == IF e1.t = "array" THEN SetOf(rev(NewSet(rev(e1.v), <<>>))) ELSE e1
         IN  Leaving(Returned(Str(Join(e2.v))), extras)

\* processExtras removing the duplicates of an array in place (splice) instead
\* of building a new Set from it
processExtrasInPlace(extras) ==
    IF extras.t \notin {"string", "array", "set"}
    THEN Leaving(Thrown(InvalidTypeExtras), extras)
    ELSE LET e1 == IF extras.t = "string" THEN Arr(Split(extras.v[1])) ELSE extras
             e2 == IF e1.t = "array" THEN SetOf(NewSet(e1.v, <<>>)) ELSE e1
         IN  Leaving(Returned(Str(Join(e2.v))),
                     IF extras.t = "array" THEN Arr(e2.v) ELSE extras)

\* extras is a local binding: split and new Set build new values and assign
\* them to the binding, join reads; the value the caller passed is not written
processExtras(extras) ==
    IF extras.t \notin {"string", "array", "set"}
    THEN Leaving(Thrown(InvalidTypeExtras), extras)
    ELSE LET e1 == IF extras.t = "string" THEN Arr(Split(extras.v[1])) ELSE extras
             e2 == IF e1.t = "array" THEN SetOf(NewSet(e1.v, <<>>)) ELSE e1
         IN  Leaving(Returned(Str(Join(e2.v))), extras)

(***************************************************************************)
(* Objects: args and opts are either undefined or a mapping of own keys    *)
(***************************************************************************)
EmptyMap == <<>>

Object(m) == [def |-> TRUE, m |-> m]

NoObject == [def |-> FALSE, m |-> EmptyMap]

\* o.k, undefined when the key is absent
Get(o, k) == IF k \in DOMAIN o.m THEN o.m[k] ELSE Undefined

\* o.k = x
Put(o, k, x) == [o EXCEPT !.m = [j \in DOMAIN o.m \cup {k} |-> IF j = k THEN x ELSE o.m[j]]]

\* Object.assign(a, b): entries of b replace entries of a
Assign(a, b) == [k \in DOMAIN a \cup DOMAIN b |-> IF k \in DOMAIN b THEN b[k] ELSE a[k]]

(***************************************************************************)
(* lib/request and plugins/json (required by rest.js, lines 6-8)           *)
(***************************************************************************)
NoRequest ==
    [verb |-> "", url |-> <<>>, qs |-> EmptyMap, body |-> EmptyMap, headers |-> EmptyMap,
     parser |-> "", used |-> <<>>]

\* request(verb, url): a fresh request, nothing attached yet
request(verb, url) ==
    [verb |-> verb, url |-> url, qs |-> EmptyMap, body |-> EmptyMap, headers |-> EmptyMap,
     parser |-> "none", used |-> <<>>]

\* req.query(obj): attach the entries of obj as query parameters
query(req, obj) == [req EXCEPT !.qs = Assign(@, obj)]

\* the JSON response-parsing decorator
json == [t |-> "function", v |-> <<<<"json">>>>]

\* a decorator supplied by the caller; it signs what it is given
Fn(name) == [t |-> "function", v |-> <<<<name>>>>]

\* what a signing decorator reads from the request it is applied to
Seen(req) == [url |-> req.url, verb |-> req.verb, qs |-> req.qs, body |-> req.body,
              parser |-> req.parser, used |-> req.used]

\* the body of the JSON decorator: the response is to be parsed as JSON
parseJSON(req) == [req EXCEPT !.parser = "json"]

\* the body of a caller's decorator: an Authorization header over what it saw
sign(name, req) ==
    [req EXCEPT !.headers = Assign(@, "Authorization" :> [by |-> name, seen |-> Seen(req)])]

(***************************************************************************)
(* createAPIKeyPlugin                                                      *)
(***************************************************************************)
\* the closure returned for the key str
createAPIKeyPlugin(str) == [t |-> "function", v |-> <<<<"apiKeyPlugin">>, str>>]

IsAPIKeyPlugin(fn) == fn.t = "function" /\ Len(fn.v) = 2 /\ fn.v[1] = <<"apiKeyPlugin">>

\* the closure setting the query to { api_key: str } instead of adding to it
apiKeyPluginReplaceAll(str, req) == [req EXCEPT !.qs = "api_key" :> Str(str)]

\* the closure adding api_key only where the request has none yet
apiKeyPluginKeepExisting(str, req) == [req EXCEPT !.qs = Assign("api_key" :> Str(str), @)]

\* the body of that closure: req.query({ api_key: str })
apiKeyPlugin(str, req) == query(req, "api_key" :> Str(str))

\* calling a decorator on a request
Call(fn, req) ==
    IF IsAPIKeyPlugin(fn) THEN apiKeyPlugin(fn.v[2], req)
    ELSE IF fn = json THEN parseJSON(req)
    ELSE sign(fn.v[1], req)

\* req.use(fn): fn is called on the request at once
use(req, fn) == LET r == Call(fn, req) IN [r EXCEPT !.used = Append(@, fn)]

(***************************************************************************)
(* createClient                                                            *)
(***************************************************************************)
DefaultHost == <<"api.flickr.com">>

\* String(x) for a string or a number
StringOf(x) == x.v[1]

NoClosure == [auth |-> Undefined, host |-> <<>>]

\* createClient without the typeof auth !== 'function' test
createClientUnchecked(auth, opts) ==
    LET auth1 == IF auth.t = "string" THEN createAPIKeyPlugin(auth.v[1]) ELSE auth
        opts1 == IF opts.def THEN opts ELSE Object(EmptyMap)
        host0 == IF Truthy(Get(opts1, "host")) THEN StringOf(Get(opts1, "host")) ELSE DefaultHost
        host1 == IF Truthy(Get(opts1, "port"))
                 THEN host0 \o <<":">> \o StringOf(Get(opts1, "port"))
                 ELSE host0
    IN  [ok |-> TRUE, val |-> [auth |-> auth1, host |-> host1], err |-> NoError]

createClient(auth, opts) ==
    LET auth1 == IF auth.t = "string" THEN createAPIKeyPlugin(auth.v[1]) ELSE auth
        opts1 == IF opts.def THEN opts ELSE Object(EmptyMap)
        host0 == IF Truthy(Get(opts1, "host")) THEN StringOf(Get(opts1, "host")) ELSE DefaultHost
        host1 == IF Truthy(Get(opts1, "port"))
                 THEN host0 \o <<":">> \o StringOf(Get(opts1, "port"))
                 ELSE host0
    IN  IF auth1.t # "function"
        THEN [ok |-> FALSE, val |-> NoClosure, err |-> MissingRequired("auth")]
        ELSE [ok |-> TRUE, val |-> [auth |-> auth1, host |-> host1], err |-> NoError]

Url(host) == <<"https://">> \o host \o <<"/services/rest">>

\* the chain up to the JSON decorator:
\* request(verb, url).query({ method: method }).query(args).use(json)
prepare(c, verb, method, args) ==
    use(query(query(request(verb, Url(c.host)), "method" :> Str(<<method>>)), args.m), json)

\* assemble with .use(auth) written before .query(args)
assembleAuthBeforeArgs(c, verb, method, args) ==
    use(query(use(query(request(verb, Url(c.host)), "method" :> Str(<<method>>)), c.auth),
              args.m),
        json)

\* assemble with .use(auth) written twice
assembleAuthTwice(c, verb, method, args) ==
    use(use(use(query(query(request(verb, Url(c.host)), "method" :> Str(<<method>>)),
                      args.m),
                c.auth),
            json),
        c.auth)

\* assemble sending the args of a POST as the request body (.send(args))
assemblePostBody(c, verb, method, args) ==
    IF verb = "POST"
    THEN use(use([query(request(verb, Url(c.host)), "method" :> Str(<<method>>))
                      EXCEPT !.body = args.m],
                 json),
             c.auth)
    ELSE use(prepare(c, verb, method, args), c.auth)

\* the chain request(...).query({ method }).query(args).use(json).use(auth)
assemble(c, verb, method, args) == use(prepare(c, verb, method, args), c.auth)

\* client refusing the verbs the remote API does not use
clientKnownVerbs(c, verb, method, args) ==
    LET args1 == IF args.def THEN args ELSE Object(EmptyMap)
        extras == Get(args1, "extras")
        norm == IF Truthy(extras) THEN processExtras(extras) ELSE Leaving(Returned(extras), extras)
        args2 == IF Truthy(extras) /\ norm.ok THEN Put(args1, "extras", norm.val) ELSE args1
        left == IF args.def THEN args2 ELSE args
    IN  IF verb \notin {"GET", "POST"}
        THEN [ok |-> FALSE, req |-> NoRequest, err |-> Error("Invalid verb", verb), args |-> args]
        ELSE IF ~norm.ok
        THEN [ok |-> FALSE, req |-> NoRequest, err |-> norm.err, args |-> left]
        ELSE [ok |-> TRUE, req |-> assemble(c, verb, method, args2),
              err |-> NoError, args |-> left]

\* client without the default for args: reading args.extras of undefined
\* throws a TypeError
clientArgsRequired(c, verb, method, args) ==
    LET extras == Get(args, "extras")
        norm == IF Truthy(extras) THEN processExtras(extras) ELSE Leaving(Returned(extras), extras)
        args2 == IF Truthy(extras) /\ norm.ok THEN Put(args, "extras", norm.val) ELSE args
    IN  IF ~args.def
        THEN [ok |-> FALSE, req |-> NoRequest,
              err |-> Error("Cannot read properties of undefined", "extras"), args |-> args]
        ELSE IF ~norm.ok
        THEN [ok |-> FALSE, req |-> NoRequest, err |-> norm.err, args |-> args2]
        ELSE [ok |-> TRUE, req |-> assemble(c, verb, method, args2),
              err |-> NoError, args |-> args2]

\* client catching what processExtras throws and building the request with
\* extras as it was given
clientIgnoringThrow(c, verb, method, args) ==
    LET args1 == IF args.def THEN args ELSE Object(EmptyMap)
        extras == Get(args1, "extras")
        norm == IF Truthy(extras) THEN processExtras(extras) ELSE Leaving(Returned(extras), extras)
        args2 == IF Truthy(extras) /\ norm.ok THEN Put(args1, "extras", norm.val) ELSE args1
        left == IF args.def THEN args2 ELSE args
    IN  [ok |-> TRUE, req |-> assemble(c, verb, method, args2), err |-> NoError, args |-> left]

\* the function createClient returns, called as c(verb, method, args);
\* the field args is the caller's object as the call leaves it
client(c, verb, method, args) ==
    LET args1 == IF args.def THEN args ELSE Object(EmptyMap)
        extras == Get(args1, "extras")
        norm == IF Truthy(extras) THEN processExtras(extras) ELSE Leaving(Returned(extras), extras)
        args2 == IF Truthy(extras) /\ norm.ok THEN Put(args1, "extras", norm.val) ELSE args1
        left == IF args.def THEN args2 ELSE args
    IN  IF ~norm.ok
        THEN [ok |-> FALSE, req |-> NoRequest, err |-> norm.err, args |-> left]
        ELSE [ok |-> TRUE, req |-> assemble(c, verb, method, args2),
              err |-> NoError, args |-> left]

(***************************************************************************)
(* lib/validate (required by rest.js, line 7)                              *)
(***************************************************************************)
validate(args, prop) ==
    IF args.def /\ prop \in DOMAIN args.m
    THEN Returned(Undefined)
    ELSE Thrown(MissingRequired(prop))

\* the validate calls of an operation written in the reverse order
validateEachLastFirst(args, props) ==
    LET failing == {i \in 1..Len(props) : ~validate(args, props[i]).ok}
    IN  IF failing = {} THEN Returned(Undefined)
        ELSE validate(args, props[CHOOSE i \in failing : \A j \in failing : j <= i])

\* the validate calls of an operation cut down to the first one
validateEachFirstOnly(args, props) ==
    IF props = <<>> THEN Returned(Undefined) ELSE validate(args, Head(props))

RECURSIVE validateEach(_, _)
\* the validate calls of an operation, in the order written
validateEach(args, props) ==
    IF props = <<>> THEN Returned(Undefined)
    ELSE LET r == validate(args, Head(props))
         IN  IF r.ok THEN validateEach(args, Tail(props)) ELSE r

(***************************************************************************)
(* Flickr.prototype: the namespaces and their operations                   *)
(***************************************************************************)
\* Flickr.prototype.<ns>.<leaf> = function (args) {
\*     validate(args, required[1]); ...
\*     return this._(verb, method, args); }
Op(ns, leaf, required, verb, method) ==
    [ns |-> ns, leaf |-> leaf, required |-> required, verb |-> verb, method |-> method]

NoOp == Op("", "", <<>>, "", "")

Namespaces ==
    {"activity", "auth", "auth.oauth", "blogs", "cameras",
     "collections", "commons", "contacts", "favorites", "galleries",
     "groups", "groups.discuss", "groups.discuss.replies", "groups.discuss.topics", "groups.members",
     "groups.pools", "interestingness", "machinetags", "panda", "people",
     "photos", "photos.comments", "photos.geo", "photos.licenses", "photos.notes",
     "photos.people", "photos.suggestions", "photos.transform", "photos.upload", "photosets",
     "photosets.comments", "places", "prefs", "profile", "push",
     "reflection", "stats", "tags", "test", "testimonials",
     "urls"}

Operations ==
    {Op("activity", "userComments", <<>>, "GET", "flickr.activity.userComments"),
     Op("activity", "userPhotos", <<>>, "GET", "flickr.activity.userPhotos"),
     Op("auth", "checkToken", <<"auth_token">>, "GET", "flickr.auth.checkToken"),
     Op("auth", "getFrob", <<>>, "GET", "flickr.auth.getFrob"),
     Op("auth", "getFullToken", <<"mini_token">>, "GET", "flickr.auth.getFullToken"),
     Op("auth", "getToken", <<"frob">>, "GET", "flickr.auth.getToken"),
     Op("auth.oauth", "checkToken", <<"oauth_token">>, "GET", "flickr.auth.oauth.checkToken"),
     Op("auth.oauth", "getAccessToken", <<>>, "GET", "flickr.auth.oauth.getAccessToken"),
     Op("blogs", "getList", <<>>, "GET", "flickr.blogs.getList"),
     Op("blogs", "getServices", <<>>, "GET", "flickr.blogs.getServices"),
     Op("blogs", "postPhoto", <<"photo_id", "title", "description">>, "POST", "flickr.blogs.postPhoto"),
     Op("cameras", "getBrandModels", <<"brand">>, "GET", "flickr.cameras.getBrandModels"),
     Op("cameras", "getBrands", <<>>, "GET", "flickr.cameras.getBrands"),
     Op("collections", "getInfo", <<"collection_id">>, "GET", "flickr.collections.getInfo"),
     Op("collections", "getTree", <<>>, "GET", "flickr.collections.getTree"),
     Op("commons", "getInstitutions", <<>>, "GET", "flickr.commons.getInstitutions"),
     Op("contacts", "getList", <<>>, "GET", "flickr.contacts.getList"),
     Op("contacts", "getListRecentlyUploaded", <<>>, "GET", "flickr.contacts.getListRecentlyUploaded"),
     Op("contacts", "getPublicList", <<"user_id">>, "GET", "flickr.contacts.getPublicList"),
     Op("contacts", "getTaggingSuggestions", <<>>, "GET", "flickr.contacts.getTaggingSuggestions"),
     Op("favorites", "add", <<"photo_id">>, "POST", "flickr.favorites.add"),
     Op("favorites", "getContext", <<"photo_id", "user_id">>, "GET", "flickr.favorites.getContext"),
     Op("favorites", "getList", <<>>, "GET", "flickr.favorites.getList"),
     Op("favorites", "getPublicList", <<"user_id">>, "GET", "flickr.favorites.getPublicList"),
     Op("favorites", "remove", <<"photo_id">>, "POST", "flickr.favorites.remove"),
     Op("galleries", "addPhoto", <<"gallery_id", "photo_id">>, "POST", "flickr.galleries.addPhoto"),
     Op("galleries", "create", <<"title", "description">>, "POST", "flickr.galleries.create"),
     Op("galleries", "editMeta", <<"gallery_id", "title">>, "POST", "flickr.galleries.editMeta"),
     Op("galleries", "editPhoto", <<"gallery_id", "photo_id", "comment">>, "POST", "flickr.galleries.editPhoto"),
     Op("galleries", "editPhotos", <<"gallery_id", "primary_photo_id", "photo_ids">>, "POST", "flickr.galleries.editPhotos"),
     Op("galleries", "getInfo", <<"gallery_id">>, "GET", "flickr.galleries.getInfo"),
     Op("galleries", "getList", <<"user_id">>, "GET", "flickr.galleries.getList"),
     Op("galleries", "getListForPhoto", <<"photo_id">>, "GET", "flickr.galleries.getListForPhoto"),
     Op("galleries", "getPhotos", <<"gallery_id">>, "GET", "flickr.galleries.getPhotos"),
     Op("groups", "browse", <<>>, "GET", "flickr.groups.browse"),
     Op("groups", "getInfo", <<"group_id">>, "GET", "flickr.groups.getInfo"),
     Op("groups", "join", <<"group_id">>, "POST", "flickr.groups.join"),
     Op("groups", "joinRequest", <<"group_id", "message", "accept_rules">>, "POST", "flickr.groups.joinRequest"),
     Op("groups", "leave", <<"group_id">>, "POST", "flickr.groups.leave"),
     Op("groups", "search", <<"text">>, "GET", "flickr.groups.search"),
     Op("groups.discuss.replies", "add", <<"group_id", "topic_id", "message">>, "POST", "flickr.groups.discuss.replies.add"),
     Op("groups.discuss.replies", "delete", <<"group_id", "topic_id", "reply_id">>, "POST", "flickr.groups.discuss.replies.delete"),
     Op("groups.discuss.replies", "edit", <<"group_id", "topic_id", "reply_id", "message">>, "POST", "flickr.groups.discuss.replies.edit"),
     Op("groups.discuss.replies", "getInfo", <<"group_id", "topic_id", "reply_id">>, "GET", "flickr.groups.discuss.replies.getInfo"),
     Op("groups.discuss.replies", "getList", <<"group_id", "topic_id", "per_page">>, "GET", "flickr.groups.discuss.replies.getList"),
     Op("groups.discuss.topics", "add", <<"group_id", "subject", "message">>, "POST", "flickr.groups.discuss.topics.add"),
     Op("groups.discuss.topics", "getInfo", <<"group_id", "topic_id">>, "GET", "flickr.groups.discuss.topics.getInfo"),
     Op("groups.discuss.topics", "getList", <<"group_id">>, "GET", "flickr.groups.discuss.topics.getList"),
     Op("groups.members", "getList", <<"group_id">>, "GET", "flickr.groups.members.getList"),
     Op("groups.pools", "add", <<"photo_id", "group_id">>, "POST", "flickr.groups.pools.add"),
     Op("groups.pools", "getContext", <<"photo_id", "group_id">>, "GET", "flickr.groups.pools.getContext"),
     Op("groups.pools", "getGroups", <<>>, "GET", "flickr.groups.pools.getGroups"),
     Op("groups.pools", "getPhotos", <<"group_id">>, "GET", "flickr.groups.pools.getPhotos"),
     Op("groups.pools", "remove", <<"photo_id", "group_id">>, "POST", "flickr.groups.pools.remove"),
     Op("interestingness", "getList", <<>>, "GET", "flickr.interestingness.getList"),
     Op("machinetags", "getNamespaces", <<>>, "GET", "flickr.machinetags.getNamespaces"),
     Op("machinetags", "getPairs", <<>>, "GET", "flickr.machinetags.getPairs"),
     Op("machinetags", "getPredicates", <<>>, "GET", "flickr.machinetags.getPredicates"),
     Op("machinetags", "getRecentValues", <<>>, "GET", "flickr.machinetags.getRecentValues"),
     Op("machinetags", "getValues", <<"namespace", "predicate">>, "GET", "flickr.machinetags.getValues"),
     Op("panda", "getList", <<>>, "GET", "flickr.panda.getList"),
     Op("panda", "getPhotos", <<"panda_name">>, "GET", "flickr.panda.getPhotos"),
     Op("people", "findByEmail", <<"find_email">>, "GET", "flickr.people.findByEmail"),
     Op("people", "findByUsername", <<"username">>, "GET", "flickr.people.findByUsername"),
     Op("people", "getGroups", <<"user_id">>, "GET", "flickr.people.getGroups"),
     Op("people", "getInfo", <<"user_id">>, "GET", "flickr.people.getInfo"),
     Op("people", "getLimits", <<>>, "GET", "flickr.people.getLimits"),
     Op("people", "getPhotos", <<"user_id">>, "GET", "flickr.people.getPhotos"),
     Op("people", "getPhotosOf", <<"user_id">>, "GET", "flickr.people.getPhotosOf"),
     Op("people", "getPublicGroups", <<"user_id">>, "GET", "flickr.people.getPublicGroups"),
     Op("people", "getPublicPhotos", <<"user_id">>, "GET", "flickr.people.getPublicPhotos"),
     Op("people", "getUploadStatus", <<>>, "GET", "flickr.people.getUploadStatus"),
     Op("photos", "addTags", <<"photo_id", "tags">>, "POST", "flickr.photos.addTags"),
     Op("photos", "delete", <<"photo_id">>, "POST", "flickr.photos.delete"),
     Op("photos", "getAllContexts", <<"photo_id">>, "GET", "flickr.photos.getAllContexts"),
     Op("photos", "getContactsPhotos", <<>>, "GET", "flickr.photos.getContactsPhotos"),
     Op("photos", "getContactsPublicPhotos", <<"user_id">>, "GET", "flickr.photos.getContactsPublicPhotos"),
     Op("photos", "getContext", <<"photo_id">>, "GET", "flickr.photos.getContext"),
     Op("photos", "getCounts", <<>>, "GET", "flickr.photos.getCounts"),
     Op("photos", "getExif", <<"photo_id">>, "GET", "flickr.photos.getExif"),
     Op("photos", "getFavorites", <<"photo_id">>, "GET", "flickr.photos.getFavorites"),
     Op("photos", "getInfo", <<"photo_id">>, "GET", "flickr.photos.getInfo"),
     Op("photos", "getNotInSet", <<>>, "GET", "flickr.photos.getNotInSet"),
     Op("photos", "getPerms", <<"photo_id">>, "GET", "flickr.photos.getPerms"),
     Op("photos", "getPopular", <<>>, "GET", "flickr.photos.getPopular"),
     Op("photos", "getRecent", <<>>, "GET", "flickr.photos.getRecent"),
     Op("photos", "getSizes", <<"photo_id">>, "GET", "flickr.photos.getSizes"),
     Op("photos", "getUntagged", <<>>, "GET", "flickr.photos.getUntagged"),
     Op("photos", "getWithGeoData", <<>>, "GET", "flickr.photos.getWithGeoData"),
     Op("photos", "getWithoutGeoData", <<>>, "GET", "flickr.photos.getWithoutGeoData"),
     Op("photos", "recentlyUpdated", <<"min_date">>, "GET", "flickr.photos.recentlyUpdated"),
     Op("photos", "removeTag", <<"tag_id">>, "POST", "flickr.photos.removeTag"),
     Op("photos", "search", <<>>, "GET", "flickr.photos.search"),
     Op("photos", "setContentType", <<"photo_id", "content_type">>, "POST", "flickr.photos.setContentType"),
     Op("photos", "setDates", <<"photo_id">>, "POST", "flickr.photos.setDates"),
     Op("photos", "setMeta", <<"photo_id">>, "POST", "flickr.photos.setMeta"),
     Op("photos", "setPerms", <<"photo_id", "is_public", "is_friend", "is_family">>, "POST", "flickr.photos.setPerms"),
     Op("photos", "setSafetyLevel", <<"photo_id">>, "POST", "flickr.photos.setSafetyLevel"),
     Op("photos", "setTags", <<"photo_id", "tags">>, "POST", "flickr.photos.setTags"),
     Op("photos.comments", "addComment", <<"photo_id", "comment_text">>, "POST", "flickr.photos.comments.addComment"),
     Op("photos.comments", "deleteComment", <<"comment_id">>, "POST", "flickr.photos.comments.deleteComment"),
     Op("photos.comments", "editComment", <<"comment_id", "comment_text">>, "POST", "flickr.photos.comments.editComment"),
     Op("photos.comments", "getList", <<"photo_id">>, "GET", "flickr.photos.comments.getList"),
     Op("photos.comments", "getRecentForContacts", <<>>, "GET", "flickr.photos.comments.getRecentForContacts"),
     Op("photos.geo", "batchCorrectLocation", <<"lat", "lon", "accuracy">>, "POST", "flickr.photos.geo.batchCorrectLocation"),
     Op("photos.geo", "correctLocation", <<"photo_id", "foursquare_id">>, "POST", "flickr.photos.geo.correctLocation"),
     Op("photos.geo", "getLocation", <<"photo_id">>, "GET", "flickr.photos.geo.getLocation"),
     Op("photos.geo", "getPerms", <<"photo_id">>, "GET", "flickr.photos.geo.getPerms"),
     Op("photos.geo", "photosForLocation", <<"lat", "lon">>, "GET", "flickr.photos.geo.photosForLocation"),
     Op("photos.geo", "removeLocation", <<"photo_id">>, "POST", "flickr.photos.geo.removeLocation"),
     Op("photos.geo", "setContext", <<"photo_id", "context">>, "POST", "flickr.photos.geo.setContext"),
     Op("photos.geo", "setLocation", <<"photo_id", "lat", "lon">>, "POST", "flickr.photos.geo.setLocation"),
     Op("photos.geo", "setPerms", <<"is_public", "is_contact", "is_friend", "is_family", "photo_id">>, "POST", "flickr.photos.geo.setPerms"),
     Op("photos.licenses", "getInfo", <<>>, "GET", "flickr.photos.licenses.getInfo"),
     Op("photos.licenses", "setLicense", <<"photo_id", "license_id">>, "POST", "flickr.photos.licenses.setLicense"),
     Op("photos.notes", "add", <<"photo_id", "note_x", "note_y", "note_w", "note_h", "note_text">>, "POST", "flickr.photos.notes.add"),
     Op("photos.notes", "delete", <<"note_id">>, "POST", "flickr.photos.notes.delete"),
     Op("photos.notes", "edit", <<"note_id", "note_x", "note_y", "note_w", "note_h", "note_text">>, "POST", "flickr.photos.notes.edit"),
     Op("photos.people", "add", <<"photo_id", "user_id">>, "POST", "flickr.photos.people.add"),
     Op("photos.people", "delete", <<"photo_id", "user_id">>, "POST", "flickr.photos.people.delete"),
     Op("photos.people", "deleteCoords", <<"photo_id", "user_id">>, "POST", "flickr.photos.people.deleteCoords"),
     Op("photos.people", "editCoords", <<"photo_id", "user_id", "person_x", "person_y", "person_w", "person_h">>, "POST", "flickr.photos.people.editCoords"),
     Op("photos.people", "getList", <<"photo_id">>, "GET", "flickr.photos.people.getList"),
     Op("photos.suggestions", "approveSuggestion", <<"suggestion_id">>, "POST", "flickr.photos.suggestions.approveSuggestion"),
     Op("photos.suggestions", "getList", <<>>, "GET", "flickr.photos.suggestions.getList"),
     Op("photos.suggestions", "rejectSuggestion", <<"suggestion_id">>, "POST", "flickr.photos.suggestions.rejectSuggestion"),
     Op("photos.suggestions", "removeSuggestion", <<"suggestion_id">>, "POST", "flickr.photos.suggestions.removeSuggestion"),
     Op("photos.suggestions", "suggestLocation", <<"photo_id", "lat", "lon">>, "POST", "flickr.photos.suggestions.suggestLocation"),
     Op("photos.transform", "rotate", <<"photo_id", "degrees">>, "POST", "flickr.photos.transform.rotate"),
     Op("photos.upload", "checkTickets", <<"tickets">>, "GET", "flickr.photos.upload.checkTickets"),
     Op("photosets", "addPhoto", <<"photoset_id", "photo_id">>, "POST", "flickr.photosets.addPhoto"),
     Op("photosets", "create", <<"title", "primary_photo_id">>, "POST", "flickr.photosets.create"),
     Op("photosets", "delete", <<"photoset_id">>, "POST", "flickr.photosets.delete"),
     Op("photosets", "editMeta", <<"photoset_id", "title">>, "POST", "flickr.photosets.editMeta"),
     Op("photosets", "editPhotos", <<"photoset_id", "primary_photo_id", "photo_ids">>, "POST", "flickr.photosets.editPhotos"),
     Op("photosets", "getContext", <<"photo_id", "photoset_id">>, "GET", "flickr.photosets.getContext"),
     Op("photosets", "getInfo", <<"photoset_id", "user_id">>, "GET", "flickr.photosets.getInfo"),
     Op("photosets", "getList", <<>>, "GET", "flickr.photosets.getList"),
     Op("photosets", "getPhotos", <<"photoset_id", "user_id">>, "GET", "flickr.photosets.getPhotos"),
     Op("photosets", "orderSets", <<"photoset_ids">>, "POST", "flickr.photosets.orderSets"),
     Op("photosets", "removePhoto", <<"photoset_id", "photo_id">>, "POST", "flickr.photosets.removePhoto"),
     Op("photosets", "removePhotos", <<"photoset_id", "photo_ids">>, "POST", "flickr.photosets.removePhotos"),
     Op("photosets", "reorderPhotos", <<"photoset_id", "photo_ids">>, "POST", "flickr.photosets.reorderPhotos"),
     Op("photosets", "setPrimaryPhoto", <<"photoset_id", "photo_id">>, "POST", "flickr.photosets.setPrimaryPhoto"),
     Op("photosets.comments", "addComment", <<"photoset_id", "comment_text">>, "POST", "flickr.photosets.comments.addComment"),
     Op("photosets.comments", "deleteComment", <<"comment_id">>, "POST", "flickr.photosets.comments.deleteComment"),
     Op("photosets.comments", "editComment", <<"comment_id", "comment_text">>, "POST", "flickr.photosets.comments.editComment"),
     Op("photosets.comments", "getList", <<"photoset_id">>, "GET", "flickr.photosets.comments.getList"),
     Op("places", "find", <<"query">>, "GET", "flickr.places.find"),
     Op("places", "findByLatLon", <<"lat", "lon">>, "GET", "flickr.places.findByLatLon"),
     Op("places", "getChildrenWithPhotosPublic", <<>>, "GET", "flickr.places.getChildrenWithPhotosPublic"),
     Op("places", "getInfo", <<>>, "GET", "flickr.places.getInfo"),
     Op("places", "getInfoByUrl", <<"url">>, "GET", "flickr.places.getInfoByUrl"),
     Op("places", "getPlaceTypes", <<>>, "GET", "flickr.places.getPlaceTypes"),
     Op("places", "getShapeHistory", <<>>, "GET", "flickr.places.getShapeHistory"),
     Op("places", "getTopPlacesList", <<"place_type_id">>, "GET", "flickr.places.getTopPlacesList"),
     Op("places", "placesForBoundingBox", <<"bbox">>, "GET", "flickr.places.placesForBoundingBox"),
     Op("places", "placesForContacts", <<>>, "GET", "flickr.places.placesForContacts"),
     Op("places", "placesForTags", <<"place_type_id">>, "GET", "flickr.places.placesForTags"),
     Op("places", "placesForUser", <<>>, "GET", "flickr.places.placesForUser"),
     Op("places", "resolvePlaceId", <<"place_id">>, "GET", "flickr.places.resolvePlaceId"),
     Op("places", "resolvePlaceURL", <<"url">>, "GET", "flickr.places.resolvePlaceURL"),
     Op("places", "tagsForPlace", <<>>, "GET", "flickr.places.tagsForPlace"),
     Op("prefs", "getContentType", <<>>, "GET", "flickr.prefs.getContentType"),
     Op("prefs", "getGeoPerms", <<>>, "GET", "flickr.prefs.getGeoPerms"),
     Op("prefs", "getHidden", <<>>, "GET", "flickr.prefs.getHidden"),
     Op("prefs", "getPrivacy", <<>>, "GET", "flickr.prefs.getPrivacy"),
     Op("prefs", "getSafetyLevel", <<>>, "GET", "flickr.prefs.getSafetyLevel"),
     Op("profile", "getProfile", <<"user_id">>, "GET", "flickr.profile.getProfile"),
     Op("push", "getSubscriptions", <<>>, "GET", "flickr.push.getSubscriptions"),
     Op("push", "getTopics", <<>>, "GET", "flickr.push.getTopics"),
     Op("push", "subscribe", <<"topic", "callback", "verify">>, "GET", "flickr.push.subscribe"),
     Op("push", "unsubscribe", <<"topic", "callback", "verify">>, "GET", "flickr.push.unsubscribe"),
     Op("reflection", "getMethodInfo", <<"method_name">>, "GET", "flickr.reflection.getMethodInfo"),
     Op("reflection", "getMethods", <<>>, "GET", "flickr.reflection.getMethods"),
     Op("stats", "getCSVFiles", <<>>, "GET", "flickr.stats.getCSVFiles"),
     Op("stats", "getCollectionDomains", <<"date">>, "GET", "flickr.stats.getCollectionDomains"),
     Op("stats", "getCollectionReferrers", <<"date", "domain">>, "GET", "flickr.stats.getCollectionReferrers"),
     Op("stats", "getCollectionStats", <<"date", "collection_id">>, "GET", "flickr.stats.getCollectionStats"),
     Op("stats", "getPhotoDomains", <<"date">>, "GET", "flickr.stats.getPhotoDomains"),
     Op("stats", "getPhotoReferrers", <<"date", "domain">>, "GET", "flickr.stats.getPhotoReferrers"),
     Op("stats", "getPhotoStats", <<"date", "photo_id">>, "GET", "flickr.stats.getPhotoStats"),
     Op("stats", "getPhotosetDomains", <<"date">>, "GET", "flickr.stats.getPhotosetDomains"),
     Op("stats", "getPhotosetReferrers", <<"date", "domain">>, "GET", "flickr.stats.getPhotosetReferrers"),
     Op("stats", "getPhotosetStats", <<"date", "photoset_id">>, "GET", "flickr.stats.getPhotosetStats"),
     Op("stats", "getPhotostreamDomains", <<"date">>, "GET", "flickr.stats.getPhotostreamDomains"),
     Op("stats", "getPhotostreamReferrers", <<"date", "domain">>, "GET", "flickr.stats.getPhotostreamReferrers"),
     Op("stats", "getPhotostreamStats", <<"date">>, "GET", "flickr.stats.getPhotostreamStats"),
     Op("stats", "getPopularPhotos", <<>>, "GET", "flickr.stats.getPopularPhotos"),
     Op("stats", "getTotalViews", <<>>, "GET", "flickr.stats.getTotalViews"),
     Op("tags", "getClusterPhotos", <<"tag", "cluster_id">>, "GET", "flickr.tags.getClusterPhotos"),
     Op("tags", "getClusters", <<"tag">>, "GET", "flickr.tags.getClusters"),
     Op("tags", "getHotList", <<>>, "GET", "flickr.tags.getHotList"),
     Op("tags", "getListPhoto", <<"photo_id">>, "GET", "flickr.tags.getListPhoto"),
     Op("tags", "getListUser", <<>>, "GET", "flickr.tags.getListUser"),
     Op("tags", "getListUserPopular", <<>>, "GET", "flickr.tags.getListUserPopular"),
     Op("tags", "getListUserRaw", <<>>, "GET", "flickr.tags.getListUserRaw"),
     Op("tags", "getMostFrequentlyUsed", <<>>, "GET", "flickr.tags.getMostFrequentlyUsed"),
     Op("tags", "getRelated", <<"tag">>, "GET", "flickr.tags.getRelated"),
     Op("test", "echo", <<>>, "GET", "flickr.test.echo"),
     Op("test", "login", <<>>, "GET", "flickr.test.login"),
     Op("test", "null", <<>>, "GET", "flickr.test.null"),
     Op("testimonials", "addTestimonial", <<"user_id", "testimonial_text">>, "POST", "flickr.testimonials.addTestimonial"),
     Op("testimonials", "approveTestimonial", <<"testimonial_id">>, "POST", "flickr.testimonials.approveTestimonial"),
     Op("testimonials", "deleteTestimonial", <<"testimonial_id">>, "POST", "flickr.testimonials.deleteTestimonial"),
     Op("testimonials", "editTestimonial", <<"user_id", "testimonial_id", "testimonial_text">>, "POST", "flickr.testimonials.editTestimonial"),
     Op("testimonials", "getAllTestimonialsAbout", <<>>, "GET", "flickr.testimonials.getAllTestimonialsAbout"),
     Op("testimonials", "getAllTestimonialsAboutBy", <<"user_id">>, "GET", "flickr.testimonials.getAllTestimonialsAboutBy"),
     Op("testimonials", "getAllTestimonialsBy", <<>>, "GET", "flickr.testimonials.getAllTestimonialsBy"),
     Op("testimonials", "getPendingTestimonialsAbout", <<>>, "GET", "flickr.testimonials.getPendingTestimonialsAbout"),
     Op("testimonials", "getPendingTestimonialsAboutBy", <<"user_id">>, "GET", "flickr.testimonials.getPendingTestimonialsAboutBy"),
     Op("testimonials", "getPendingTestimonialsBy", <<>>, "GET", "flickr.testimonials.getPendingTestimonialsBy"),
     Op("testimonials", "getTestimonialsAbout", <<"user_id">>, "GET", "flickr.testimonials.getTestimonialsAbout"),
     Op("testimonials", "getTestimonialsAboutBy", <<"user_id">>, "GET", "flickr.testimonials.getTestimonialsAboutBy"),
     Op("testimonials", "getTestimonialsBy", <<"user_id">>, "GET", "flickr.testimonials.getTestimonialsBy"),
     Op("urls", "getGroup", <<"group_id">>, "GET", "flickr.urls.getGroup"),
     Op("urls", "getUserPhotos", <<>>, "GET", "flickr.urls.getUserPhotos"),
     Op("urls", "getUserProfile", <<>>, "GET", "flickr.urls.getUserProfile"),
     Op("urls", "lookupGallery", <<"url">>, "GET", "flickr.urls.lookupGallery"),
     Op("urls", "lookupGroup", <<"url">>, "GET", "flickr.urls.lookupGroup"),
     Op("urls", "lookupUser", <<"url">>, "GET", "flickr.urls.lookupUser")}

\* a row of the documentation table of the constructor:
\* | [method](url) | `permission` | `required`, ... |
Doc(method, permission, required) ==
    [method |-> method, permission |-> permission, required |-> required]

DocTable ==
    {Doc("flickr.activity.userComments", "read", <<>>),
     Doc("flickr.activity.userPhotos", "read", <<>>),
     Doc("flickr.auth.checkToken", "none", <<"auth_token">>),
     Doc("flickr.auth.getFrob", "none", <<>>),
     Doc("flickr.auth.getFullToken", "none", <<"mini_token">>),
     Doc("flickr.auth.getToken", "none", <<"frob">>),
     Doc("flickr.auth.oauth.checkToken", "none", <<"oauth_token">>),
     Doc("flickr.auth.oauth.getAccessToken", "none", <<>>),
     Doc("flickr.blogs.getList", "read", <<>>),
     Doc("flickr.blogs.getServices", "none", <<>>),
     Doc("flickr.blogs.postPhoto", "write", <<"photo_id", "title", "description">>),
     Doc("flickr.cameras.getBrandModels", "none", <<"brand">>),
     Doc("flickr.cameras.getBrands", "none", <<>>),
     Doc("flickr.collections.getInfo", "read", <<"collection_id">>),
     Doc("flickr.collections.getTree", "none", <<>>),
     Doc("flickr.commons.getInstitutions", "none", <<>>),
     Doc("flickr.contacts.getList", "read", <<>>),
     Doc("flickr.contacts.getListRecentlyUploaded", "read", <<>>),
     Doc("flickr.contacts.getPublicList", "none", <<"user_id">>),
     Doc("flickr.contacts.getTaggingSuggestions", "read", <<>>),
     Doc("flickr.favorites.add", "write", <<"photo_id">>),
     Doc("flickr.favorites.getContext", "none", <<"photo_id", "user_id">>),
     Doc("flickr.favorites.getList", "none", <<>>),
     Doc("flickr.favorites.getPublicList", "none", <<"user_id">>),
     Doc("flickr.favorites.remove", "write", <<"photo_id">>),
     Doc("flickr.galleries.addPhoto", "write", <<"gallery_id", "photo_id">>),
     Doc("flickr.galleries.create", "write", <<"title", "description">>),
     Doc("flickr.galleries.editMeta", "write", <<"gallery_id", "title">>),
     Doc("flickr.galleries.editPhoto", "write", <<"gallery_id", "photo_id", "comment">>),
     Doc("flickr.galleries.editPhotos", "write", <<"gallery_id", "primary_photo_id", "photo_ids">>),
     Doc("flickr.galleries.getInfo", "none", <<"gallery_id">>),
     Doc("flickr.galleries.getList", "none", <<"user_id">>),
     Doc("flickr.galleries.getListForPhoto", "none", <<"photo_id">>),
     Doc("flickr.galleries.getPhotos", "none", <<"gallery_id">>),
     Doc("flickr.groups.browse", "read", <<>>),
     Doc("flickr.groups.getInfo", "none", <<"group_id">>),
     Doc("flickr.groups.join", "write", <<"group_id">>),
     Doc("flickr.groups.joinRequest", "write", <<"group_id", "message", "accept_rules">>),
     Doc("flickr.groups.leave", "delete", <<"group_id">>),
     Doc("flickr.groups.search", "none", <<"text">>),
     Doc("flickr.groups.discuss.replies.add", "write", <<"group_id", "topic_id", "message">>),
     Doc("flickr.groups.discuss.replies.delete", "delete", <<"group_id", "topic_id", "reply_id">>),
     Doc("flickr.groups.discuss.replies.edit", "write", <<"group_id", "topic_id", "reply_id", "message">>),
     Doc("flickr.groups.discuss.replies.getInfo", "none", <<"group_id", "topic_id", "reply_id">>),
     Doc("flickr.groups.discuss.replies.getList", "none", <<"group_id", "topic_id", "per_page">>),
     Doc("flickr.groups.discuss.topics.add", "write", <<"group_id", "subject", "message">>),
     Doc("flickr.groups.discuss.topics.getInfo", "none", <<"group_id", "topic_id">>),
     Doc("flickr.groups.discuss.topics.getList", "none", <<"group_id">>),
     Doc("flickr.groups.members.getList", "read", <<"group_id">>),
     Doc("flickr.groups.pools.add", "write", <<"photo_id", "group_id">>),
     Doc("flickr.groups.pools.getContext", "none", <<"photo_id", "group_id">>),
     Doc("flickr.groups.pools.getGroups", "read", <<>>),
     Doc("flickr.groups.pools.getPhotos", "none", <<"group_id">>),
     Doc("flickr.groups.pools.remove", "write", <<"photo_id", "group_id">>),
     Doc("flickr.interestingness.getList", "none", <<>>),
     Doc("flickr.machinetags.getNamespaces", "none", <<>>),
     Doc("flickr.machinetags.getPairs", "none", <<>>),
     Doc("flickr.machinetags.getPredicates", "none", <<>>),
     Doc("flickr.machinetags.getRecentValues", "none", <<>>),
     Doc("flickr.machinetags.getValues", "none", <<"namespace", "predicate">>),
     Doc("flickr.panda.getList", "none", <<>>),
     Doc("flickr.panda.getPhotos", "none", <<"panda_name">>),
     Doc("flickr.people.findByEmail", "none", <<"find_email">>),
     Doc("flickr.people.findByUsername", "none", <<"username">>),
     Doc("flickr.people.getGroups", "read", <<"user_id">>),
     Doc("flickr.people.getInfo", "none", <<"user_id">>),
     Doc("flickr.people.getLimits", "read", <<>>),
     Doc("flickr.people.getPhotos", "none", <<"user_id">>),
     Doc("flickr.people.getPhotosOf", "none", <<"user_id">>),
     Doc("flickr.people.getPublicGroups", "none", <<"user_id">>),
     Doc("flickr.people.getPublicPhotos", "none", <<"user_id">>),
     Doc("flickr.people.getUploadStatus", "read", <<>>),
     Doc("flickr.photos.addTags", "write", <<"photo_id", "tags">>),
     Doc("flickr.photos.delete", "delete", <<"photo_id">>),
     Doc("flickr.photos.getAllContexts", "none", <<"photo_id">>),
     Doc("flickr.photos.getContactsPhotos", "read", <<>>),
     Doc("flickr.photos.getContactsPublicPhotos", "none", <<"user_id">>),
     Doc("flickr.photos.getContext", "none", <<"photo_id">>),
     Doc("flickr.photos.getCounts", "read", <<>>),
     Doc("flickr.photos.getExif", "none", <<"photo_id">>),
     Doc("flickr.photos.getFavorites", "none", <<"photo_id">>),
     Doc("flickr.photos.getInfo", "none", <<"photo_id">>),
     Doc("flickr.photos.getNotInSet", "read", <<>>),
     Doc("flickr.photos.getPerms", "read", <<"photo_id">>),
     Doc("flickr.photos.getPopular", "none", <<>>),
     Doc("flickr.photos.getRecent", "none", <<>>),
     Doc("flickr.photos.getSizes", "none", <<"photo_id">>),
     Doc("flickr.photos.getUntagged", "read", <<>>),
     Doc("flickr.photos.getWithGeoData", "read", <<>>),
     Doc("flickr.photos.getWithoutGeoData", "read", <<>>),
     Doc("flickr.photos.recentlyUpdated", "read", <<"min_date">>),
     Doc("flickr.photos.removeTag", "write", <<"tag_id">>),
     Doc("flickr.photos.search", "none", <<>>),
     Doc("flickr.photos.setContentType", "write", <<"photo_id", "content_type">>),
     Doc("flickr.photos.setDates", "write", <<"photo_id">>),
     Doc("flickr.photos.setMeta", "write", <<"photo_id">>),
     Doc("flickr.photos.setPerms", "write", <<"photo_id", "is_public", "is_friend", "is_family">>),
     Doc("flickr.photos.setSafetyLevel", "write", <<"photo_id">>),
     Doc("flickr.photos.setTags", "write", <<"photo_id", "tags">>),
     Doc("flickr.photos.comments.addComment", "write", <<"photo_id", "comment_text">>),
     Doc("flickr.photos.comments.deleteComment", "write", <<"comment_id">>),
     Doc("flickr.photos.comments.editComment", "write", <<"comment_id", "comment_text">>),
     Doc("flickr.photos.comments.getList", "none", <<"photo_id">>),
     Doc("flickr.photos.comments.getRecentForContacts", "read", <<>>),
     Doc("flickr.photos.geo.batchCorrectLocation", "write", <<"lat", "lon", "accuracy">>),
     Doc("flickr.photos.geo.correctLocation", "write", <<"photo_id", "foursquare_id">>),
     Doc("flickr.photos.geo.getLocation", "none", <<"photo_id">>),
     Doc("flickr.photos.geo.getPerms", "read", <<"photo_id">>),
     Doc("flickr.photos.geo.photosForLocation", "read", <<"lat", "lon">>),
     Doc("flickr.photos.geo.removeLocation", "write", <<"photo_id">>),
     Doc("flickr.photos.geo.setContext", "write", <<"photo_id", "context">>),
     Doc("flickr.photos.geo.setLocation", "write", <<"photo_id", "lat", "lon">>),
     Doc("flickr.photos.geo.setPerms", "write", <<"is_public", "is_contact", "is_friend", "is_family", "photo_id">>),
     Doc("flickr.photos.licenses.getInfo", "none", <<>>),
     Doc("flickr.photos.licenses.setLicense", "write", <<"photo_id", "license_id">>),
     Doc("flickr.photos.notes.add", "write", <<"photo_id", "note_x", "note_y", "note_w", "note_h", "note_text">>),
     Doc("flickr.photos.notes.delete", "write", <<"note_id">>),
     Doc("flickr.photos.notes.edit", "write", <<"note_id", "note_x", "note_y", "note_w", "note_h", "note_text">>),
     Doc("flickr.photos.people.add", "write", <<"photo_id", "user_id">>),
     Doc("flickr.photos.people.delete", "write", <<"photo_id", "user_id">>),
     Doc("flickr.photos.people.deleteCoords", "write", <<"photo_id", "user_id">>),
     Doc("flickr.photos.people.editCoords", "write", <<"photo_id", "user_id", "person_x", "person_y", "person_w", "person_h">>),
     Doc("flickr.photos.people.getList", "none", <<"photo_id">>),
     Doc("flickr.photos.suggestions.approveSuggestion", "write", <<"suggestion_id">>),
     Doc("flickr.photos.suggestions.getList", "read", <<>>),
     Doc("flickr.photos.suggestions.rejectSuggestion", "write", <<"suggestion_id">>),
     Doc("flickr.photos.suggestions.removeSuggestion", "write", <<"suggestion_id">>),
     Doc("flickr.photos.suggestions.suggestLocation", "write", <<"photo_id", "lat", "lon">>),
     Doc("flickr.photos.transform.rotate", "write", <<"photo_id", "degrees">>),
     Doc("flickr.photos.upload.checkTickets", "none", <<"tickets">>),
     Doc("flickr.photosets.addPhoto", "write", <<"photoset_id", "photo_id">>),
     Doc("flickr.photosets.create", "write", <<"title", "primary_photo_id">>),
     Doc("flickr.photosets.delete", "write", <<"photoset_id">>),
     Doc("flickr.photosets.editMeta", "write", <<"photoset_id", "title">>),
     Doc("flickr.photosets.editPhotos", "write", <<"photoset_id", "primary_photo_id", "photo_ids">>),
     Doc("flickr.photosets.getContext", "none", <<"photo_id", "photoset_id">>),
     Doc("flickr.photosets.getInfo", "none", <<"photoset_id", "user_id">>),
     Doc("flickr.photosets.getList", "none", <<>>),
     Doc("flickr.photosets.getPhotos", "none", <<"photoset_id", "user_id">>),
     Doc("flickr.photosets.orderSets", "write", <<"photoset_ids">>),
     Doc("flickr.photosets.removePhoto", "write", <<"photoset_id", "photo_id">>),
     Doc("flickr.photosets.removePhotos", "write", <<"photoset_id", "photo_ids">>),
     Doc("flickr.photosets.reorderPhotos", "write", <<"photoset_id", "photo_ids">>),
     Doc("flickr.photosets.setPrimaryPhoto", "write", <<"photoset_id", "photo_id">>),
     Doc("flickr.photosets.comments.addComment", "write", <<"photoset_id", "comment_text">>),
     Doc("flickr.photosets.comments.deleteComment", "write", <<"comment_id">>),
     Doc("flickr.photosets.comments.editComment", "write", <<"comment_id", "comment_text">>),
     Doc("flickr.photosets.comments.getList", "none", <<"photoset_id">>),
     Doc("flickr.places.find", "none", <<"query">>),
     Doc("flickr.places.findByLatLon", "none", <<"lat", "lon">>),
     Doc("flickr.places.getChildrenWithPhotosPublic", "none", <<>>),
     Doc("flickr.places.getInfo", "none", <<>>),
     Doc("flickr.places.getInfoByUrl", "none", <<"url">>),
     Doc("flickr.places.getPlaceTypes", "none", <<>>),
     Doc("flickr.places.getShapeHistory", "none", <<>>),
     Doc("flickr.places.getTopPlacesList", "none", <<"place_type_id">>),
     Doc("flickr.places.placesForBoundingBox", "none", <<"bbox">>),
     Doc("flickr.places.placesForContacts", "read", <<>>),
     Doc("flickr.places.placesForTags", "none", <<"place_type_id">>),
     Doc("flickr.places.placesForUser", "read", <<>>),
     Doc("flickr.places.resolvePlaceId", "none", <<"place_id">>),
     Doc("flickr.places.resolvePlaceURL", "none", <<"url">>),
     Doc("flickr.places.tagsForPlace", "none", <<>>),
     Doc("flickr.prefs.getContentType", "read", <<>>),
     Doc("flickr.prefs.getGeoPerms", "read", <<>>),
     Doc("flickr.prefs.getHidden", "read", <<>>),
     Doc("flickr.prefs.getPrivacy", "read", <<>>),
     Doc("flickr.prefs.getSafetyLevel", "read", <<>>),
     Doc("flickr.profile.getProfile", "none", <<"user_id">>),
     Doc("flickr.push.getSubscriptions", "read", <<>>),
     Doc("flickr.push.getTopics", "none", <<>>),
     Doc("flickr.push.subscribe", "read", <<"topic", "callback", "verify">>),
     Doc("flickr.push.unsubscribe", "read", <<"topic", "callback", "verify">>),
     Doc("flickr.reflection.getMethodInfo", "none", <<"method_name">>),
     Doc("flickr.reflection.getMethods", "none", <<>>),
     Doc("flickr.stats.getCSVFiles", "read", <<>>),
     Doc("flickr.stats.getCollectionDomains", "read", <<"date">>),
     Doc("flickr.stats.getCollectionReferrers", "read", <<"date", "domain">>),
     Doc("flickr.stats.getCollectionStats", "read", <<"date", "collection_id">>),
     Doc("flickr.stats.getPhotoDomains", "read", <<"date">>),
     Doc("flickr.stats.getPhotoReferrers", "read", <<"date", "domain">>),
     Doc("flickr.stats.getPhotoStats", "read", <<"date", "photo_id">>),
     Doc("flickr.stats.getPhotosetDomains", "read", <<"date">>),
     Doc("flickr.stats.getPhotosetReferrers", "read", <<"date", "domain">>),
     Doc("flickr.stats.getPhotosetStats", "read", <<"date", "photoset_id">>),
     Doc("flickr.stats.getPhotostreamDomains", "read", <<"date">>),
     Doc("flickr.stats.getPhotostreamReferrers", "read", <<"date", "domain">>),
     Doc("flickr.stats.getPhotostreamStats", "read", <<"date">>),
     Doc("flickr.stats.getPopularPhotos", "read", <<>>),
     Doc("flickr.stats.getTotalViews", "read", <<>>),
     Doc("flickr.tags.getClusterPhotos", "none", <<"tag", "cluster_id">>),
     Doc("flickr.tags.getClusters", "none", <<"tag">>),
     Doc("flickr.tags.getHotList", "none", <<>>),
     Doc("flickr.tags.getListPhoto", "none", <<"photo_id">>),
     Doc("flickr.tags.getListUser", "none", <<>>),
     Doc("flickr.tags.getListUserPopular", "none", <<>>),
     Doc("flickr.tags.getListUserRaw", "none", <<>>),
     Doc("flickr.tags.getMostFrequentlyUsed", "read", <<>>),
     Doc("flickr.tags.getRelated", "none", <<"tag">>),
     Doc("flickr.test.echo", "none", <<>>),
     Doc("flickr.test.login", "read", <<>>),
     Doc("flickr.test.null", "read", <<>>),
     Doc("flickr.testimonials.addTestimonial", "write", <<"user_id", "testimonial_text">>),
     Doc("flickr.testimonials.approveTestimonial", "write", <<"testimonial_id">>),
     Doc("flickr.testimonials.deleteTestimonial", "write", <<"testimonial_id">>),
     Doc("flickr.testimonials.editTestimonial", "write", <<"user_id", "testimonial_id", "testimonial_text">>),
     Doc("flickr.testimonials.getAllTestimonialsAbout", "read", <<>>),
     Doc("flickr.testimonials.getAllTestimonialsAboutBy", "read", <<"user_id">>),
     Doc("flickr.testimonials.getAllTestimonialsBy", "read", <<>>),
     Doc("flickr.testimonials.getPendingTestimonialsAbout", "read", <<>>),
     Doc("flickr.testimonials.getPendingTestimonialsAboutBy", "read", <<"user_id">>),
     Doc("flickr.testimonials.getPendingTestimonialsBy", "read", <<>>),
     Doc("flickr.testimonials.getTestimonialsAbout", "none", <<"user_id">>),
     Doc("flickr.testimonials.getTestimonialsAboutBy", "read", <<"user_id">>),
     Doc("flickr.testimonials.getTestimonialsBy", "none", <<"user_id">>),
     Doc("flickr.urls.getGroup", "none", <<"group_id">>),
     Doc("flickr.urls.getUserPhotos", "none", <<>>),
     Doc("flickr.urls.getUserProfile", "none", <<>>),
     Doc("flickr.urls.lookupGallery", "none", <<"url">>),
     Doc("flickr.urls.lookupGroup", "none", <<"url">>),
     Doc("flickr.urls.lookupUser", "none", <<"url">>)}

\* the row of the documentation table for a method
DocOf(method) == CHOOSE d \in DocTable : d.method = method

\* an operation written with the verb GET whatever its method
OperationAlwaysGet(op, f, args) ==
    LET v == validateEach(args, op.required)
        b == client(f, "GET", op.method, args)
    IN  IF ~v.ok
        THEN [ok |-> FALSE, req |-> NoRequest, err |-> v.err, args |-> args, invoked |-> FALSE,
              calls |-> 0]
        ELSE [ok |-> b.ok, req |-> b.req, err |-> b.err, args |-> b.args, invoked |-> TRUE,
              calls |-> 1]

\* an operation written without its validate calls
OperationUnvalidated(op, f, args) ==
    LET b == client(f, op.verb, op.method, args)
    IN  [ok |-> b.ok, req |-> b.req, err |-> b.err, args |-> b.args, invoked |-> TRUE,
         calls |-> 1]

\* the body of an operation; f is the function found at this._
Operation(op, f, args) ==
    LET v == validateEach(args, op.required)
        b == client(f, op.verb, op.method, args)
    IN  IF ~v.ok
        THEN [ok |-> FALSE, req |-> NoRequest, err |-> v.err, args |-> args, invoked |-> FALSE,
              calls |-> 0]
        ELSE [ok |-> b.ok, req |-> b.req, err |-> b.err, args |-> b.args, invoked |-> TRUE,
              calls |-> 1]

(***************************************************************************)
(* Inputs                                                                  *)
(***************************************************************************)
\* marks a key left out of an object literal
Absent == [t |-> "absent", v |-> <<>>]

Entry(k, x) == IF x = Absent THEN EmptyMap ELSE k :> x

ValidAuth == {Str(<<"K1">>), Str(<<"K2">>), Fn("sign")}

InvalidAuth == {Undefined, Null, Num("42"), Obj}

CustomOpts == Object(Assign("host" :> Str(<<"h.example">>), "port" :> Num("8080")))

SomeOpts == {NoObject, CustomOpts}

AllOpts ==
    {NoObject} \cup
    {Object(Assign(Entry("host", h), Entry("port", p))) :
        h \in {Absent, Str(<<"h.example">>), Str(<<>>)},
        p \in {Absent, Num("0"), Num("8080")}}

\* the operations called in the client life-cycle specification
SomeOperations ==
    {op \in Operations :
        \/ op.ns = "photos" /\ op.leaf = "getInfo"
        \/ op.ns = "test" /\ op.leaf = "echo"
        \/ op.ns = "blogs" /\ op.leaf = "postPhoto"}

One == Str(<<"1">>)

SomeArgs ==
    {NoObject,
     Object("photo_id" :> One),
     Object(Assign("photo_id" :> One, "extras" :> Str(<<"a", Comma, "b", Comma, "a">>))),
     Object(Assign(Assign("photo_id" :> One, "title" :> One), "description" :> One))}

\* values of args.extras given to the factory
SomeExtras ==
    {Absent, Undefined, Null, Num("0"), Num("5"), Bool("false"), Bool("true"), Obj,
     Str(<<>>), Str(<<"a">>), Str(<<"a", Comma, "b", Comma, "a">>),
     Arr(<<>>), Arr(<<<<"a">>, <<"b">>, <<"a">>>>), Arr(<<<<"a", Comma, "b">>, <<"a">>>>),
     SetOf(<<<<"b">>, <<"a">>>>)}

FactoryArgs ==
    {NoObject} \cup
    {Object(Assign(Assign(Entry("extras", e), Entry("method", m)),
                   Assign(Entry("api_key", k), Entry("photo_id", i)))) :
        e \in SomeExtras, m \in {Absent, Str(<<"flickr.evil">>)},
        k \in {Absent, Str(<<"OTHER">>)}, i \in {Absent, One}}

\* verbs given to the factory: those of the operations and strings that are
\* no HTTP verb
Verbs == {"GET", "POST", "PUT", "BREW", ""}

MethodNames == {"flickr.test.echo", "x.y"}

\* every set of required keys of op, with or without a caller-supplied method
TableArgs(op) ==
    {NoObject} \cup
    {Object([k \in K \cup M |-> IF k = "method" THEN Str(<<"flickr.evil">>) ELSE One]) :
        K \in SUBSET Range(op.required), M \in {{}, {"method"}}}

ExtrasStrings == StringsUpTo(MaxExtrasLen)

\* the elements of the arrays and Sets given to the normalizer
ExtrasElements == {<<>>, <<"a">>, <<"b">>, <<Comma>>, <<"a", Comma, "b">>}

ExtrasInputs ==
    {Str(s) : s \in ExtrasStrings}
    \cup {Arr(l) : l \in ListsUpTo(ExtrasElements, MaxExtrasItems)}
    \cup {SetOf(l) : l \in {m \in ListsUpTo(ExtrasElements, MaxExtrasItems) : NoDuplicates(m)}}
    \cup {Undefined, Null, Num("0"), Num("5"), Bool("false"), Bool("true"), Obj}

(***************************************************************************)
(* State                                                                   *)
(*   heap       the functions createClient has returned, oldest first      *)
(*   proto      for each namespace object of Flickr.prototype, its `_`     *)
(*              property: an index into heap, 0 while undefined            *)
(*   instances  the Flickr objects constructed; own is the object's own    *)
(*              `_` property (an index into heap); auth, opts and withNew  *)
(*              record how the object was constructed                      *)
(*   last       the latest call and what it returned or threw              *)
(***************************************************************************)
NoLast ==
    [kind |-> "none", ok |-> TRUE, err |-> NoError, req |-> NoRequest,
     inst |-> 0, factory |-> 0, invoked |-> FALSE, calls |-> 0,
     op |-> NoOp, verb |-> "", method |-> "", argsIn |-> NoObject, argsOut |-> NoObject,
     auth |-> Undefined, opts |-> NoObject, withNew |-> TRUE,
     extrasIn |-> Undefined, extrasOut |-> Undefined, extrasLeft |-> Undefined,
     prev |-> NoRequest]

Init ==
    /\ heap = <<>>
    /\ proto = [n \in Namespaces |-> 0]
    /\ instances = <<>>
    /\ last = NoLast

\* new Flickr(auth, opts), or Flickr(auth, opts) when withNew is FALSE
Flickr(auth, opts, withNew) ==
    LET given == IF withNew THEN opts ELSE NoObject
        r == createClient(auth, given)
        f == Len(heap) + 1
    IN  /\ IF r.ok
           THEN /\ heap' = Append(heap, r.val)
                /\ proto' = [n \in Namespaces |-> f]
                /\ instances' = Append(instances, [own |-> f, auth |-> auth,
                                                    opts |-> opts, withNew |-> withNew])
           ELSE UNCHANGED <<heap, proto, instances>>
        /\ last' = [NoLast EXCEPT !.kind = "new", !.ok = r.ok, !.err = r.err,
                                  !.inst = IF r.ok THEN f ELSE 0,
                                  !.factory = IF r.ok THEN f ELSE 0,
                                  !.auth = auth, !.opts = opts, !.withNew = withNew]

\* instances[i].<ns>.<leaf>(args)
CallOperation(i, op, args) ==
    /\ i \in 1..Len(instances)
    /\ proto[op.ns] # 0
    /\ LET r == Operation(op, heap[proto[op.ns]], args)
       IN  last' = [NoLast EXCEPT !.kind = "operation", !.ok = r.ok, !.err = r.err,
                                  !.req = r.req, !.inst = i, !.factory = proto[op.ns],
                                  !.invoked = r.invoked, !.calls = r.calls,
                                  !.op = op, !.verb = op.verb,
                                  !.method = op.method, !.argsIn = args, !.argsOut = r.args]
    /\ UNCHANGED <<heap, proto, instances>>

\* instances[i]._(verb, method, args)
CallPassthrough(i, verb, method, args) ==
    /\ i \in 1..Len(instances)
    /\ LET r == client(heap[instances[i].own], verb, method, args)
       IN  last' = [NoLast EXCEPT !.kind = "passthrough", !.ok = r.ok, !.err = r.err,
                                  !.req = r.req, !.inst = i, !.factory = instances[i].own,
                                  !.invoked = TRUE, !.calls = 1, !.verb = verb,
                                  !.method = method, !.argsIn = args, !.argsOut = r.args]
    /\ UNCHANGED <<heap, proto, instances>>

\* the call just made through `_`, made once more with the same args object
\* as the first call left it; prev keeps the request of the first call
CallPassthroughAgain ==
    /\ last.kind = "passthrough" /\ last.ok
    /\ LET r == client(heap[last.factory], last.verb, last.method, last.argsOut)
       IN  last' = [last EXCEPT !.kind = "again", !.ok = r.ok, !.err = r.err,
                                !.req = r.req, !.prev = last.req, !.argsOut = r.args,
                                !.calls = last.calls + 1]
    /\ UNCHANGED <<heap, proto, instances>>

\* processExtras(x) called on its own
Normalize(x) ==
    /\ LET r == processExtras(x)
       IN  last' = [NoLast EXCEPT !.kind = "extras", !.ok = r.ok, !.err = r.err,
                                  !.extrasIn = x, !.extrasOut = r.val,
                                  !.extrasLeft = r.arg]
    /\ UNCHANGED <<heap, proto, instances>>

(***************************************************************************)
(* Specifications                                                          *)
(***************************************************************************)
\* A call leaves heap, proto and instances as they are and its outcome does
\* not depend on last, so the calls made after an earlier call reach nothing
\* that the calls made right after a construction do not reach.
Fresh == last.kind \in {"none", "new"}

\* the life cycle of several clients
Next ==
    \/ \E auth \in ValidAuth \cup InvalidAuth, opts \in SomeOpts, withNew \in BOOLEAN :
          /\ Len(instances) < MaxClients
          /\ Flickr(auth, opts, withNew)
    \/ \E i \in 1..Len(instances), op \in SomeOperations, args \in SomeArgs :
          /\ Fresh
          /\ CallOperation(i, op, args)
    \/ \E i \in 1..Len(instances), args \in SomeArgs :
          /\ Fresh
          /\ CallPassthrough(i, "GET", "flickr.test.echo", args)

Spec == Init /\ [][Next]_vars

\* one client of any configuration and every call of its factory
NextFactory ==
    \/ \E auth \in ValidAuth, opts \in AllOpts, withNew \in BOOLEAN :
          /\ instances = <<>>
          /\ Flickr(auth, opts, withNew)
    \/ \E verb \in Verbs, method \in MethodNames, args \in FactoryArgs :
          /\ Fresh
          /\ CallPassthrough(1, verb, method, args)
    \/ CallPassthroughAgain

SpecFactory == Init /\ [][NextFactory]_vars

\* one client and every operation of the prototype
NextTable ==
    \/ \E auth \in {Str(<<"K1">>), Fn("sign")} :
          /\ instances = <<>>
          /\ Flickr(auth, NoObject, TRUE)
    \/ \E op \in Operations : \E args \in TableArgs(op) :
          /\ Fresh
          /\ CallOperation(1, op, args)

SpecTable == Init /\ [][NextTable]_vars

\* the normalizer on its own
NextExtras == \E x \in ExtrasInputs : Fresh /\ Normalize(x)

SpecExtras == Init /\ [][NextExtras]_vars

(***************************************************************************)
(* The extras normalizer (SpecExtras)                                      *)
(***************************************************************************)
IsCollection(x) == x.t \in {"string", "array", "set"}

\* the field names an extras value lists
InputFields(x) == IF x.t = "string" THEN Range(Split(x.v[1])) ELSE Range(x.v)

\* C5: for every string, array or Set given to processExtras, the returned
\* string, read as a comma-separated list, holds each distinct field name of
\* the input exactly once and nothing else (an empty array or Set gives the
\* empty string).
C5_EachFieldOnce ==
    (last.kind = "extras" /\ IsCollection(last.extrasIn)) =>
        /\ last.ok
        /\ last.extrasOut.t = "string"
        /\ IF InputFields(last.extrasIn) = {}
           THEN last.extrasOut.v[1] = <<>>
           ELSE LET out == Split(last.extrasOut.v[1])
                IN  NoDuplicates(out) /\ Range(out) = InputFields(last.extrasIn)

\* C6: for every value that is not a string, an array or a Set, processExtras
\* throws the error 'Invalid type for argument "extras"' and returns nothing.
C6_InvalidTypeThrows ==
    (last.kind = "extras" /\ ~IsCollection(last.extrasIn)) =>
        /\ ~last.ok
        /\ last.err = InvalidTypeExtras
        /\ last.extrasOut = Undefined

C6_Witness ==
    last.kind = "extras" /\ last.extrasIn = Num("5") /\ ~last.ok

(***************************************************************************)
(* The request factory (SpecFactory)                                       *)
(***************************************************************************)
\* the latest call went through the factory and a request came back
Built == last.kind \in {"operation", "passthrough"} /\ last.ok

\* C3: a client constructed with a string KEY builds, through its own
\* factory, only requests whose query parameter api_key is KEY, for every
\* verb, method name and args.
C3_ApiKeyOfClient ==
    (Built /\ last.kind = "passthrough" /\ instances[last.inst].auth.t = "string") =>
        /\ "api_key" \in DOMAIN last.req.qs
        /\ last.req.qs["api_key"] = instances[last.inst].auth

C3_Witness ==
    /\ Built /\ last.kind = "passthrough" /\ last.verb = "POST"
    /\ instances[last.inst].auth = Str(<<"K1">>)
    /\ "api_key" \in DOMAIN last.argsIn.m
    /\ last.argsIn.m["api_key"] = Str(<<"OTHER">>)
    /\ last.req.qs["api_key"] = Str(<<"K1">>)

\* C7: whenever args has an extras key, whatever its value, the factory
\* passes the value through processExtras: a string, array or Set is replaced
\* by the normalized string in the request's extras parameter, and any other
\* value makes the build fail with the normalizer's error.
C7_ExtrasAlwaysNormalized ==
    (last.kind = "passthrough" /\ "extras" \in DOMAIN last.argsIn.m) =>
        LET n == processExtras(last.argsIn.m["extras"])
        IN  IF n.ok
            THEN /\ last.ok
                 /\ "extras" \in DOMAIN last.req.qs
                 /\ last.req.qs["extras"] = n.val
            ELSE /\ ~last.ok
                 /\ last.err = n.err

\* the query parameter the factory is to attach for the key k of args
Attached(a, k) ==
    IF k = "extras" /\ IsCollection(a.m[k]) THEN processExtras(a.m[k]).val ELSE a.m[k]

\* C8: in every build the auth decorator is the last one applied.  A
\* decorator supplied by the caller sees the target URL, the method
\* parameter, every entry of args (extras normalized) and the JSON decorator
\* already in place, and nothing is attached after it; the decoration (the
\* header, or api_key for a string key) is in the returned request.
C8_AuthAppliedLast ==
    (Built /\ last.kind = "passthrough") =>
        LET r == last.req
            c == heap[last.factory]
            a == last.argsIn
        IN  /\ r.used # <<>>
            /\ r.used[Len(r.used)] = c.auth
            /\ IsAPIKeyPlugin(c.auth) =>
                  /\ "api_key" \in DOMAIN r.qs
                  /\ r.qs["api_key"] = Str(c.auth.v[2])
            /\ ~IsAPIKeyPlugin(c.auth) =>
                  /\ "Authorization" \in DOMAIN r.headers
                  /\ LET seen == r.headers["Authorization"].seen
                     IN  /\ seen.url = Url(c.host)
                         /\ "method" \in DOMAIN seen.qs
                         /\ "method" \notin DOMAIN a.m =>
                               seen.qs["method"] = Str(<<last.method>>)
                         /\ \A k \in DOMAIN a.m :
                               k \in DOMAIN seen.qs /\ seen.qs[k] = Attached(a, k)
                         /\ seen.parser = "json"
                         /\ seen.used = <<json>>
                         /\ seen.qs = r.qs
                         /\ seen.url = r.url

C8_Witness ==
    /\ Built /\ last.kind = "passthrough"
    /\ heap[last.factory].auth = Fn("sign")
    /\ "photo_id" \in DOMAIN last.argsIn.m
    /\ "extras" \in DOMAIN last.argsIn.m
    /\ last.argsIn.m["extras"] = Str(<<"a", Comma, "b", Comma, "a">>)
    /\ last.req.headers["Authorization"].seen.qs["extras"] = Str(<<"a", Comma, "b">>)

\* how many times the decorator fn was applied to the request
Applications(req, fn) == Cardinality({i \in 1..Len(req.used) : req.used[i] = fn})

\* C9: every successful build applies the client's auth decorator to the
\* request exactly once, for a string key and for a caller's decorator alike.
C9_AuthAppliedOnce ==
    (Built /\ last.kind = "passthrough") =>
        Applications(last.req, heap[last.factory].auth) = 1

C9_Witness ==
    /\ Built /\ last.kind = "passthrough"
    /\ IsAPIKeyPlugin(heap[last.factory].auth)
    /\ last.argsIn.def
    /\ Applications(last.req, heap[last.factory].auth) = 1
    /\ Applications(last.req, json) = 1

(***************************************************************************)
(* The operations of the prototype (SpecTable)                             *)
(***************************************************************************)
\* C2: every request built carries a method query parameter equal to the
\* method name the factory was called with, and every operation passes its
\* own name, "flickr." followed by its namespace path and its own name, for
\* every operation and every args.
C2_MethodParameter ==
    (Built /\ last.kind = "operation") =>
        /\ last.method = "flickr." \o last.op.ns \o "." \o last.op.leaf
        /\ "method" \in DOMAIN last.req.qs
        /\ last.req.qs["method"] = Str(<<last.method>>)

\* the required parameters of op that args lacks
MissingOf(op, args) ==
    {p \in Range(op.required) : ~(args.def /\ p \in DOMAIN args.m)}

\* C4: an operation called with args lacking one of its required parameters
\* fails with 'Missing required argument' naming a parameter that is
\* lacking; the factory is not invoked and no request is constructed.
C4_MissingRequiredArgument ==
    (last.kind = "operation" /\ MissingOf(last.op, last.argsIn) # {}) =>
        /\ ~last.ok
        /\ last.err.message = "Missing required argument"
        /\ last.err.argument \in MissingOf(last.op, last.argsIn)
        /\ ~last.invoked
        /\ last.req = NoRequest

C4_Witness ==
    /\ last.kind = "operation"
    /\ last.op.ns = "photos" /\ last.op.leaf = "getInfo"
    /\ last.argsIn = Object(EmptyMap)
    /\ last.err = MissingRequired("photo_id")
    /\ ~last.invoked

(***************************************************************************)
(* Several clients (Spec)                                                  *)
(***************************************************************************)
\* C1: a request built through a namespace operation of a client carries
\* that client's own auth decoration and its own host and port, whatever
\* clients were constructed before or after it.
C1_ClientIsolation ==
    (Built /\ last.kind = "operation") =>
        LET own == heap[instances[last.inst].own]
        IN  /\ last.req.url = Url(own.host)
            /\ last.req.used # <<>>
            /\ last.req.used[Len(last.req.used)] = own.auth

\* C10: constructing a client with an auth that is neither a string nor a
\* function throws 'Missing required argument "auth"'; no factory is
\* created and the `_` of every namespace and of every client stays as it was.
C10_InvalidAuthRejected ==
    [][(last'.kind = "new" /\ last'.auth.t \notin {"string", "function"}) =>
          /\ ~last'.ok
          /\ last'.err = MissingRequired("auth")
          /\ UNCHANGED <<heap, proto, instances>>]_vars

C10_Witness ==
    /\ last.kind = "new" /\ ~last.ok
    /\ last.auth = Num("42")
    /\ Len(heap) = 1
    /\ \A n \in Namespaces : proto[n] = 1

(***************************************************************************)
(* The request factory, continued (SpecFactory)                            *)
(***************************************************************************)
\* https://{host}[:{port}]/services/rest for the options as they were given:
\* the host given (an empty host counts as omitted) or else the default, and
\* the port part when a port was given
UrlFor(opts) ==
    LET host == IF "host" \in DOMAIN opts.m /\ opts.m["host"] # Str(<<>>)
                THEN StringOf(opts.m["host"])
                ELSE DefaultHost
        port == IF "port" \in DOMAIN opts.m
                THEN <<":">> \o StringOf(opts.m["port"])
                ELSE <<>>
    IN  <<"https://">> \o host \o port \o <<"/services/rest">>

\* C11: for a client constructed with new Flickr(auth, opts), the target URL
\* of every built request is https://{host}[:{port}]/services/rest with the
\* host of opts (api.flickr.com when omitted) and the port part present
\* exactly when opts has a port, for every port value, whatever the verb,
\* method name and args.
C11_TargetUrl ==
    (Built /\ last.kind = "passthrough" /\ instances[last.inst].withNew) =>
        last.req.url = UrlFor(instances[last.inst].opts)

\* C12: the factory leaves the caller's args object as it was: after a build,
\* successful or failed, every entry (extras too) has the value it had before.
C12_ArgsUntouched ==
    last.kind = "passthrough" => last.argsOut = last.argsIn


(***************************************************************************)
(* processExtras, continued (SpecExtras)                                   *)
(***************************************************************************)
\* C13: processExtras has no side effect on its argument: the string, array or
\* Set passed in has the same elements in the same order after the call,
\* whether the call returns or throws.
C13_InputUnchanged ==
    last.kind = "extras" => last.extrasLeft = last.extrasIn

\* an array with a duplicate is normalized and is still the array it was
C13_Witness ==
    /\ last.kind = "extras" /\ last.ok
    /\ last.extrasIn = Arr(<<<<"a">>, <<"b">>, <<"a">>>>)
    /\ last.extrasOut = Str(<<"a", Comma, "b">>)
    /\ last.extrasLeft = last.extrasIn

\* C14 as stated: every entry of args other than extras is a query parameter
\* of the built request with the value it was given, for every verb, and the
\* request has no body.
C14_EveryArgAsQuery ==
    (Built /\ last.kind = "passthrough") =>
        /\ \A k \in DOMAIN last.argsIn.m \ {"extras"} :
              k \in DOMAIN last.req.qs /\ last.req.qs[k] = last.argsIn.m[k]
        /\ last.req.body = EmptyMap

\* C14, amended: every entry of args other than extras, and other than
\* api_key when the client was constructed with a string key, is a query
\* parameter of the built request with the value it was given, for every verb
\* (POST as GET), and the request has no body.
C14_ArgsAsQuery ==
    (Built /\ last.kind = "passthrough") =>
        /\ \A k \in DOMAIN last.argsIn.m \ {"extras"} :
              \/ k = "api_key" /\ instances[last.inst].auth.t = "string"
              \/ k \in DOMAIN last.req.qs /\ last.req.qs[k] = last.argsIn.m[k]
        /\ last.req.body = EmptyMap

\* a POST whose arguments, the caller's api_key included, are all query
\* parameters under a signing client
C14_Witness ==
    /\ Built /\ last.kind = "passthrough" /\ last.verb = "POST"
    /\ instances[last.inst].auth = Fn("sign")
    /\ DOMAIN last.argsIn.m = {"api_key", "photo_id", "method"}
    /\ last.req.qs["photo_id"] = One
    /\ last.req.qs["api_key"] = Str(<<"OTHER">>)
    /\ last.req.body = EmptyMap

\* C15: a build with args omitted succeeds and gives the request the same
\* build gives for an empty mapping; its query parameters are exactly method,
\* plus api_key when the client's auth is a string key (a caller's decorator
\* adds a header and no query parameter).
C15_OmittedArgs ==
    (last.kind = "passthrough" /\ ~last.argsIn.def) =>
        /\ last.ok
        /\ last.req = client(heap[last.factory], last.verb, last.method, Object(EmptyMap)).req
        /\ DOMAIN last.req.qs =
              {"method"} \cup (IF instances[last.inst].auth.t = "string" THEN {"api_key"} ELSE {})
        /\ last.req.qs["method"] = Str(<<last.method>>)
        /\ last.req.body = EmptyMap

C15_Witness ==
    /\ last.kind = "passthrough" /\ ~last.argsIn.def /\ last.ok
    /\ instances[last.inst].auth = Str(<<"K2">>)
    /\ last.method = "flickr.test.echo"
    /\ last.req.qs = Assign("method" :> Str(<<"flickr.test.echo">>), "api_key" :> Str(<<"K2">>))

\* the factory called processExtras and it threw: args.extras is truthy and
\* not a string, an array or a Set
NormalizerFails ==
    /\ last.kind = "passthrough"
    /\ "extras" \in DOMAIN last.argsIn.m
    /\ Truthy(last.argsIn.m["extras"])
    /\ ~processExtras(last.argsIn.m["extras"]).ok

\* C16: when processExtras throws inside a build, the call throws that same
\* error, returns no request, and neither the JSON decorator nor the auth
\* decorator has been applied to anything.
C16_NormalizerErrorSurfaces ==
    NormalizerFails =>
        /\ ~last.ok
        /\ last.err = processExtras(last.argsIn.m["extras"]).err
        /\ last.err = InvalidTypeExtras
        /\ last.req = NoRequest
        /\ last.req.used = <<>> /\ last.req.parser = "" /\ last.req.headers = EmptyMap

C16_Witness ==
    /\ NormalizerFails /\ ~last.ok
    /\ last.argsIn.m["extras"] = Num("5")
    /\ instances[last.inst].auth = Fn("sign")
    /\ last.err = InvalidTypeExtras /\ last.req = NoRequest

(***************************************************************************)
(* Builds on several clients (Spec)                                        *)
(***************************************************************************)
\* the outcome of the last call when nothing but the construction of its
\* client and the call itself is run
Alone ==
    LET i == instances[last.inst]
        own == createClient(i.auth, IF i.withNew THEN i.opts ELSE NoObject).val
    IN  IF last.kind = "operation"
        THEN LET r == Operation(last.op, own, last.argsIn)
             IN  [ok |-> r.ok, err |-> r.err, req |-> r.req]
        ELSE LET r == client(own, last.verb, last.method, last.argsIn)
             IN  [ok |-> r.ok, err |-> r.err, req |-> r.req]

\* C17: whatever clients were constructed and whatever calls were made before
\* it, on the same client or on others, a build (through an operation or
\* through the client's own factory) returns the request, or throws the error,
\* that the same call on the same client gives when run alone.
C17_BuildsIndependent ==
    last.kind \in {"operation", "passthrough"} =>
        [ok |-> last.ok, err |-> last.err, req |-> last.req] = Alone

(***************************************************************************)
(* The operations and the documentation table (SpecTable)                  *)
(***************************************************************************)
\* the required arguments the documentation table lists for the operation
\* last called that its args lack
ListedMissing ==
    {p \in Range(DocOf(last.op.method).required) :
        ~(last.argsIn.def /\ p \in DOMAIN last.argsIn.m)}

\* C18: an operation validates exactly the required arguments the
\* documentation table lists for its method: called with args lacking one of
\* them it fails with 'Missing required argument' naming one that is lacking
\* and the factory is not invoked; called with all of them, or with any args
\* (omitted args included) when none is listed, it reaches the factory.
C18_ValidatesDocumented ==
    last.kind = "operation" =>
        /\ \E d \in DocTable : d.method = last.op.method
        /\ IF ListedMissing # {}
           THEN /\ ~last.ok /\ ~last.invoked
                /\ last.err.message = "Missing required argument"
                /\ last.err.argument \in ListedMissing
           ELSE last.invoked

\* photos.geo.setPerms called without is_family, the fourth of its five
\* listed arguments
C18_Witness ==
    /\ last.kind = "operation"
    /\ last.op.method = "flickr.photos.geo.setPerms"
    /\ DOMAIN last.argsIn.m = {"is_public", "is_contact", "is_friend", "photo_id"}
    /\ ListedMissing = {"is_family"}
    /\ last.err = MissingRequired("is_family")
    /\ ~last.invoked

(***************************************************************************)
(* The request factory and the key decorator (SpecFactory)                 *)
(***************************************************************************)
\* the same build with the verb GET
AsGet == client(heap[last.factory], "GET", last.method, last.argsIn)

\* C19: the factory does not look at the verb: for every verb string a
\* build succeeds or fails as the same build with GET does (it succeeds
\* unless processExtras throws), the request's verb is the verb given, and
\* its URL, query parameters, body and decorators are those of the GET build.
C19_VerbAgnostic ==
    last.kind = "passthrough" =>
        /\ last.ok = ~NormalizerFails
        /\ last.ok = AsGet.ok /\ last.err = AsGet.err /\ last.argsOut = AsGet.args
        /\ last.ok =>
              /\ last.req.verb = last.verb
              /\ last.req.url = AsGet.req.url
              /\ last.req.qs = AsGet.req.qs
              /\ last.req.body = AsGet.req.body
              /\ last.req.parser = AsGet.req.parser
              /\ last.req.used = AsGet.req.used
              /\ DOMAIN last.req.headers = DOMAIN AsGet.req.headers

C19_Witness ==
    /\ Built /\ last.kind = "passthrough" /\ last.verb = "BREW"
    /\ last.req.verb = "BREW"
    /\ "photo_id" \in DOMAIN last.req.qs
    /\ last.req.qs = AsGet.req.qs
    /\ last.req.used = <<json, createAPIKeyPlugin(<<"K1">>)>>

\* the request as the chain has it when the auth decorator is applied
BeforeAuth ==
    prepare(heap[last.factory], last.verb, last.method,
            IF last.argsOut.def THEN last.argsOut ELSE Object(EmptyMap))

\* C20: on a client constructed with a string key, the auth decorator sets the
\* query parameter api_key to the client's key and changes nothing else of the
\* request it is applied to: verb, URL, method and every other query
\* parameter, body, headers and the JSON decorator are as before; an api_key
\* given in args does not survive it.
C20_KeyDecoratorFrame ==
    (Built /\ last.kind = "passthrough" /\ instances[last.inst].auth.t = "string") =>
        LET key == instances[last.inst].auth
            plugin == createAPIKeyPlugin(key.v[1])
        IN  /\ last.req.qs = [k \in DOMAIN BeforeAuth.qs \cup {"api_key"} |->
                                  IF k = "api_key" THEN key ELSE BeforeAuth.qs[k]]
            /\ last.req.used = Append(BeforeAuth.used, plugin)
            /\ last.req = [BeforeAuth EXCEPT !.qs = last.req.qs, !.used = last.req.used]
            /\ BeforeAuth.parser = "json" /\ BeforeAuth.used = <<json>>

C20_Witness ==
    /\ Built /\ last.kind = "passthrough"
    /\ instances[last.inst].auth = Str(<<"K1">>)
    /\ last.argsIn.def
    /\ DOMAIN last.argsIn.m = {"api_key", "photo_id", "extras"}
    /\ BeforeAuth.qs["api_key"] = Str(<<"OTHER">>)
    /\ last.req.qs["api_key"] = Str(<<"K1">>)
    /\ last.req.qs["photo_id"] = One
    /\ last.req.qs["extras"] = BeforeAuth.qs["extras"]

(***************************************************************************)
(* Construction without new (SpecFactory)                                  *)
(***************************************************************************)
\* the request the last call gives on a client made by new Flickr(auth, opts)
\* from the auth and opts the client of the call was made from
WithNew ==
    LET i == instances[last.inst]
    IN  client(createClient(i.auth, i.opts).val, last.verb, last.method, last.argsIn).req

\* C21: a client made by Flickr(auth, opts) without new builds the requests
\* that a client made by new Flickr(auth, opts) builds: same URL (a host and
\* port given in opts included), same auth decoration, same query parameters.
C21_WithoutNewEquivalent ==
    (Built /\ last.kind = "passthrough" /\ ~instances[last.inst].withNew) =>
        /\ last.req.url = WithNew.url
        /\ last.req.qs = WithNew.qs
        /\ last.req.used = WithNew.used
        /\ last.req.headers = WithNew.headers

(***************************************************************************)
(* The passthrough and the namespaces (Spec)                               *)
(***************************************************************************)
\* C22: a request built through a client's own `_` carries that client's
\* auth decorator and its host and port, whatever clients were constructed
\* after it; and at every moment the function at the `_` of each namespace, as
\* a client's operations find it, builds as that client's own `_` does.
C22_PassthroughAndNamespaces ==
    /\ (Built /\ last.kind = "passthrough") =>
          LET own == heap[instances[last.inst].own]
          IN  /\ last.req.url = Url(own.host)
              /\ last.req.used = <<json, own.auth>>
    /\ \A i \in 1..Len(instances) : \A ns \in Namespaces :
          heap[proto[ns]] = heap[instances[i].own]

(***************************************************************************)
(* Two builds from one args object (SpecFactory)                           *)
(***************************************************************************)
\* C23: a second build made right after a first one, on the same client with
\* the same verb, method name and args object, gives a request with the query
\* parameters of the first; in particular its extras parameter is the same.
C23_RepeatedBuild ==
    last.kind = "again" =>
        /\ last.ok
        /\ last.req.qs = last.prev.qs

(***************************************************************************)
(* processExtras: algebraic properties (SpecExtras)                        *)
(***************************************************************************)
\* C24: processExtras is idempotent: for every string, array or Set x, arrays
\* and Sets whose elements contain commas included, normalizing the string it
\* returned returns that string again.
C24_Idempotent ==
    (last.kind = "extras" /\ IsCollection(last.extrasIn)) =>
        LET again == processExtras(last.extrasOut)
        IN  last.ok /\ again.ok /\ again.val = last.extrasOut

\* C25: the three shapes agree: a string gives what the array of its segments
\* (split on commas, nothing trimmed, empty segments kept) gives, and an array
\* gives what the Set built from it gives.
C25_ShapesAgree ==
    (last.kind = "extras" /\ last.extrasIn.t \in {"string", "array"}) =>
        LET other == IF last.extrasIn.t = "string"
                     THEN Arr(Split(last.extrasIn.v[1]))
                     ELSE SetOf(NewSet(last.extrasIn.v, <<>>))
        IN  /\ last.ok
            /\ processExtras(other).ok
            /\ processExtras(other).val = last.extrasOut

\* 'a,,a' has the segments 'a', '' and 'a', and gives 'a,' as they do
C25_Witness ==
    /\ last.kind = "extras" /\ last.ok
    /\ last.extrasIn = Str(<<"a", Comma, Comma, "a">>)
    /\ Split(last.extrasIn.v[1]) = <<<<"a">>, <<>>, <<"a">>>>
    /\ last.extrasOut = Str(<<"a", Comma>>)
    /\ processExtras(Arr(<<<<"a">>, <<>>, <<"a">>>>)).val = last.extrasOut

RECURSIVE FirstOccurrences(_, _)
\* the elements of l from position i on that occur at no earlier position
FirstOccurrences(l, i) ==
    IF i > Len(l) THEN <<>>
    ELSE (IF \E j \in 1..(i - 1) : l[j] = l[i] THEN <<>> ELSE <<l[i]>>)
         \o FirstOccurrences(l, i + 1)

\* C26: the string returned lists the distinct elements of the input (the
\* segments of a string, the elements of an array, the elements of a Set in
\* insertion order) in the order of their first occurrence, joined by commas;
\* it is a function of the input.
C26_FirstOccurrenceOrder ==
    (last.kind = "extras" /\ IsCollection(last.extrasIn)) =>
        LET fields == IF last.extrasIn.t = "string"
                      THEN Split(last.extrasIn.v[1])
                      ELSE last.extrasIn.v
        IN  /\ last.ok
            /\ last.extrasOut = Str(Join(FirstOccurrences(fields, 1)))
            /\ last.extrasOut = processExtras(last.extrasIn).val

C26_Witness ==
    /\ last.kind = "extras" /\ last.ok
    /\ last.extrasIn = Arr(<<<<"b">>, <<"a">>, <<"b">>>>)
    /\ last.extrasOut = Str(<<"b", Comma, "a">>)

(***************************************************************************)
(* The operations: order of validation and verbs (SpecTable)               *)
(***************************************************************************)
\* the positions, in the order the operation last called declares its
\* required parameters, of those its args lack
MissingAt ==
    {i \in 1..Len(last.op.required) :
        ~(last.argsIn.def /\ last.op.required[i] \in DOMAIN last.argsIn.m)}

\* C27: the required parameters of an operation are checked in the order
\* declared and the first failure ends the call: the error names the first
\* one lacking, whatever else is lacking, and the factory is not called; when
\* none is lacking the factory is called exactly once.
C27_FirstMissingNamed ==
    last.kind = "operation" =>
        IF MissingAt # {}
        THEN /\ ~last.ok
             /\ last.err = MissingRequired(
                    last.op.required[CHOOSE i \in MissingAt : \A j \in MissingAt : i <= j])
             /\ last.calls = 0
        ELSE last.calls = 1

\* photos.notes.add called without note_x and note_text: note_x is named
C27_Witness ==
    /\ last.kind = "operation"
    /\ last.op.method = "flickr.photos.notes.add"
    /\ last.op.required = <<"photo_id", "note_x", "note_y", "note_w", "note_h", "note_text">>
    /\ MissingAt = {2, 6}
    /\ last.err = MissingRequired("note_x")
    /\ last.calls = 0

\* C28: an operation whose method the documentation table gives the
\* permission write or delete builds its request with the verb POST, and one
\* whose method it gives the permission none or read builds it with GET.
C28_VerbOfPermission ==
    (Built /\ last.kind = "operation") =>
        LET permission == DocOf(last.op.method).permission
        IN  /\ permission \in {"none", "read", "write", "delete"}
            /\ permission \in {"write", "delete"} => last.req.verb = "POST"
            /\ permission \in {"none", "read"} => last.req.verb = "GET"

C28_Witness ==
    /\ Built /\ last.kind = "operation"
    /\ last.op.method = "flickr.photos.delete"
    /\ DocOf(last.op.method).permission = "delete"
    /\ last.req.verb = "POST"
    /\ last.req.qs["photo_id"] = One
====
